---- MODULE Spec2Model ----
(***************************************************************************)
(* Model of app/main.py: the repository provisioning service (create_repo,  *)
(* list_repos, get_push_log), the identifier validator safe_name, and the   *)
(* post-receive hook script that write_post_receive_hook installs.          *)
(*                                                                          *)
(* Strings are sequences of one-character strings.  The filesystem below    *)
(* REPO_ROOT is the shared state; request handlers run concurrently (one    *)
(* thread per request) and the hook runs as a separate process per push.    *)
(***************************************************************************)
EXTENDS Integers, Sequences, FiniteSets, TLC

VARIABLES
    dirs,       \* set of paths (relative to REPO_ROOT) that exist as directories
    bare,       \* subset of dirs where `git init --bare` has completed
    hook,       \* path -> [content, exec] for every existing hooks/post-receive
    pushlog,    \* path -> sequence of lines for every existing push.log
    req,        \* request handler -> its position, arguments and response
    hookp,      \* hook process -> its position, input and target repository
    clock,      \* the UTC clock read by `date -u`
    input,      \* the raw string handed to safe_name (validator specification)
    output      \* what safe_name made of it

vars == <<dirs, bare, hook, pushlog, req, hookp, clock, input, output>>

fsvars == <<dirs, bare, hook, pushlog>>

(***************************************************************************)
(* Bounds.                                                                  *)
(***************************************************************************)
MaxLen == 3

NumHandlers == 2

MaxPushes == 2

ServicePushes == 1

MaxRefs == 1

(***************************************************************************)
(* Characters.                                                              *)
(***************************************************************************)
Lower == {"a", "b", "c", "d", "e", "f", "g", "h", "i", "j", "k", "l", "m",
          "n", "o", "p", "q", "r", "s", "t", "u", "v", "w", "x", "y", "z"}

Upper == {"A", "B", "C", "D", "E", "F", "G", "H", "I", "J", "K", "L", "M",
          "N", "O", "P", "Q", "R", "S", "T", "U", "V", "W", "X", "Y", "Z"}

Digits == {"0", "1", "2", "3", "4", "5", "6", "7", "8", "9"}

\* the allow-list without the dot
allowed_no_dot == Lower \cup Upper \cup Digits \cup {"-", "_"}

\* allowed = set("abc...XYZ0123456789-_.")
allowed == Lower \cup Upper \cup Digits \cup {"-", "_", "."}

\* the characters str.strip() removes
Whitespace == {" ", "\t", "\n", "\r"}

\* the characters the validator specification draws its inputs from
Alphabet == {"a", "Z", "7", ".", "-", "_", "/", "\\", " ", "\t", "#"}

Strings == UNION {[1..n -> Alphabet] : n \in 0..MaxLen}

(***************************************************************************)
(* safe_name                                                                *)
(***************************************************************************)
RECURSIVE LStrip(_)
LStrip(s) == IF s # <<>> /\ Head(s) \in Whitespace THEN LStrip(Tail(s)) ELSE s

RECURSIVE RStrip(_)
RStrip(s) ==
    IF s # <<>> /\ s[Len(s)] \in Whitespace
    THEN RStrip(SubSeq(s, 1, Len(s) - 1))
    ELSE s

\* s.strip()
Strip(s) == RStrip(LStrip(s))

\* sub in s
Contains(s, sub) ==
    \E i \in 1..(Len(s) - Len(sub) + 1) : SubSeq(s, i, i + Len(sub) - 1) = sub

Ok(v) == [ok |-> TRUE, value |-> v]

ValueError(msg) == [ok |-> FALSE, value |-> msg]

\* safe_name without the check of line 22
safe_name_no_traversal(raw) ==
    LET s == Strip(raw) IN
    IF s = <<>> THEN ValueError("Empty name not allowed")
    ELSE IF \E i \in 1..Len(s) : s[i] \notin allowed
        THEN ValueError("Only letters, numbers, '-', '_', '.' are allowed")
    ELSE Ok(s)

safe_name(raw) ==
    LET s == Strip(raw) IN
    IF s = <<>> THEN ValueError("Empty name not allowed")
    ELSE IF Contains(s, <<"/">>) \/ Contains(s, <<"\\">>) \/ Contains(s, <<".", ".">>)
        THEN ValueError("Invalid name")
    ELSE IF \E i \in 1..Len(s) : s[i] \notin allowed
        THEN ValueError("Only letters, numbers, '-', '_', '.' are allowed")
    ELSE Ok(s)

(***************************************************************************)
(* Paths below REPO_ROOT: sequences of components.                          *)
(***************************************************************************)
DotGit == <<".", "g", "i", "t">>

\* REPO_ROOT itself (created at import time, line 9)
REPO_ROOT == <<>>

\* pathlib drops "." components when joining
PathJoin(base, comp) == IF comp = <<".">> THEN base ELSE Append(base, comp)

\* repo_dir = REPO_ROOT / org / f"{name}.git"
RepoDir(org, name) == PathJoin(PathJoin(REPO_ROOT, org), name \o DotGit)

\* p.parent
Parent(p) == IF p = <<>> THEN <<>> ELSE SubSeq(p, 1, Len(p) - 1)

\* the directories mkdir(parents=True) creates for p
Ancestors(p) == {SubSeq(p, 1, n) : n \in 0..Len(p)}

\* the hook file's content: nothing yet (opened for writing) or hook_content
HookEmpty == "empty"

HookContent == "hook_content"

\* one more entry in a path-indexed table
Put(f, k, v) == [x \in DOMAIN f \cup {k} |-> IF x = k THEN v ELSE f[x]]

(***************************************************************************)
(* Request handlers.                                                        *)
(***************************************************************************)
Handlers == 1..NumHandlers

\* a response body: the error detail, or the descriptors, or the push log
NoBody == [detail |-> "", repos |-> {}, pushes |-> <<>>, note |-> ""]

Idle == [op |-> "none", pc |-> "idle", org |-> <<>>, name |-> <<>>,
         seen |-> {}, status |-> 0, body |-> NoBody]

\* the raw identifiers requests carry
OrgInputs == {<<"o">>, <<" ", "o">>, <<"o", "/">>}

NameInputs == {<<"a">>, <<"b">>, <<".", ".">>, <<>>}

\* return body
Respond(r, code, payload) == [r EXCEPT !.pc = "done", !.status = code, !.body = payload]

\* raise HTTPException(status_code, detail)
HTTPException(r, code, msg) == Respond(r, code, [NoBody EXCEPT !.detail = msg])

Descriptor(org, name, path) == [org |-> org, name |-> name, path |-> path]

\* Validate with only org through safe_name and name taken as it comes
ValidateOrgOnly(p, operation, org_raw, name_raw) ==
    LET o == safe_name(org_raw) IN
    /\ req[p].pc = "idle"
    /\ req' = [req EXCEPT ![p] =
            IF ~o.ok THEN HTTPException([@ EXCEPT !.op = operation], 400, o.value)
            ELSE [@ EXCEPT !.op = operation, !.pc = "exists",
                           !.org = o.value, !.name = name_raw]]

\* lines 63-69 and 105-111: both identifiers through safe_name, then the path
Validate(p, operation, org_raw, name_raw) ==
    LET o == safe_name(org_raw)
        n == safe_name(name_raw) IN
    /\ req[p].pc = "idle"
    /\ req' = [req EXCEPT ![p] =
            IF ~o.ok THEN HTTPException([@ EXCEPT !.op = operation], 400, o.value)
            ELSE IF ~n.ok THEN HTTPException([@ EXCEPT !.op = operation], 400, n.value)
            ELSE [@ EXCEPT !.op = operation, !.pc = "exists",
                           !.org = o.value, !.name = n.value]]

repo_dir(p) == RepoDir(req[p].org, req[p].name)

\* create_repo, lines 62-69
CreateValidateFrom(p, orgs, names) ==
    /\ \E org_raw \in orgs, name_raw \in names :
            Validate(p, "create_repo", org_raw, name_raw)
    /\ UNCHANGED <<fsvars, hookp, clock, input, output>>

CreateValidate(p) == CreateValidateFrom(p, OrgInputs, NameInputs)

\* CreateExists without the existence check
CreateExistsUnchecked(p) ==
    /\ req[p].op = "create_repo" /\ req[p].pc = "exists"
    /\ req' = [req EXCEPT ![p].pc = "mkdir"]
    /\ UNCHANGED <<fsvars, hookp, clock, input, output>>

\* create_repo, lines 70-71
CreateExists(p) ==
    /\ req[p].op = "create_repo" /\ req[p].pc = "exists"
    /\ req' = [req EXCEPT ![p] =
            IF repo_dir(p) \in dirs
            THEN HTTPException(@, 409, "Repo already exists")
            ELSE [@ EXCEPT !.pc = "mkdir"]]
    /\ UNCHANGED <<fsvars, hookp, clock, input, output>>

\* create_repo, line 73
CreateMkdirParent(p) ==
    /\ req[p].op = "create_repo" /\ req[p].pc = "mkdir"
    /\ dirs' = dirs \cup Ancestors(Parent(repo_dir(p)))
    /\ req' = [req EXCEPT ![p].pc = "git_init"]
    /\ UNCHANGED <<bare, hook, pushlog, hookp, clock, input, output>>

\* git init --bare, first half: the directory appears (or is found there)
GitInitMkdir(p) ==
    /\ req[p].op = "create_repo" /\ req[p].pc = "git_init"
    /\ dirs' = dirs \cup {repo_dir(p)}
    /\ req' = [req EXCEPT ![p].pc = "git_init_fill"]
    /\ UNCHANGED <<bare, hook, pushlog, hookp, clock, input, output>>

\* git init --bare, second half: HEAD, config, objects, refs, hooks/ are there;
\* on an existing repository this reinitialises and keeps its files
GitInitFill(p) ==
    /\ req[p].op = "create_repo" /\ req[p].pc = "git_init_fill"
    /\ bare' = bare \cup {repo_dir(p)}
    /\ req' = [req EXCEPT ![p].pc = "hook_open"]
    /\ UNCHANGED <<dirs, hook, pushlog, hookp, clock, input, output>>

\* GitInitFail with the exit status of git ignored (check=False)
GitInitFailIgnored(p) ==
    /\ req[p].op = "create_repo" /\ req[p].pc \in {"git_init", "git_init_fill"}
    /\ req' = [req EXCEPT ![p].pc = "hook_open"]
    /\ UNCHANGED <<fsvars, hookp, clock, input, output>>

\* subprocess.run(..., check=True) raises when git exits non-zero: the
\* exception leaves create_repo and the framework answers 500
GitInitFail(p) ==
    /\ req[p].op = "create_repo" /\ req[p].pc \in {"git_init", "git_init_fill"}
    /\ req' = [req EXCEPT ![p] = HTTPException(@, 500, "Internal Server Error")]
    /\ UNCHANGED <<fsvars, hookp, clock, input, output>>

\* write_post_receive_hook, lines 31-34 and the open() of write_text (line 58):
\* the file is created with mode 0o644, or truncated keeping its mode
HookOpen(p) ==
    /\ req[p].op = "create_repo" /\ req[p].pc = "hook_open"
    /\ hook' = Put(hook, repo_dir(p),
            [content |-> HookEmpty,
             exec |-> IF repo_dir(p) \in DOMAIN hook THEN hook[repo_dir(p)].exec ELSE FALSE])
    /\ req' = [req EXCEPT ![p].pc = "hook_write"]
    /\ UNCHANGED <<dirs, bare, pushlog, hookp, clock, input, output>>

\* write_text, line 58: the content is written and the file closed
HookWrite(p) ==
    /\ req[p].op = "create_repo" /\ req[p].pc = "hook_write"
    /\ hook' = [hook EXCEPT ![repo_dir(p)].content = HookContent]
    /\ req' = [req EXCEPT ![p].pc = "chmod"]
    /\ UNCHANGED <<dirs, bare, pushlog, hookp, clock, input, output>>

\* os.chmod(hook_path, 0o755), line 59
HookChmod(p) ==
    /\ req[p].op = "create_repo" /\ req[p].pc = "chmod"
    /\ hook' = [hook EXCEPT ![repo_dir(p)].exec = TRUE]
    /\ req' = [req EXCEPT ![p].pc = "return"]
    /\ UNCHANGED <<dirs, bare, pushlog, hookp, clock, input, output>>

\* create_repo, lines 81-86
CreateReturn(p) ==
    /\ req[p].op = "create_repo" /\ req[p].pc = "return"
    /\ req' = [req EXCEPT ![p] =
            Respond(@, 200, [NoBody EXCEPT
                !.repos = {Descriptor(req[p].org, req[p].name, repo_dir(p))}])]
    /\ UNCHANGED <<fsvars, hookp, clock, input, output>>

\* the response has been sent; the worker thread takes the next request
Finish(p) ==
    /\ req[p].pc = "done"
    /\ req' = [req EXCEPT ![p] = Idle]
    /\ UNCHANGED <<fsvars, hookp, clock, input, output>>

create_repo(p) ==
    \/ CreateValidate(p)
    \/ CreateExists(p)
    \/ CreateMkdirParent(p)
    \/ GitInitMkdir(p)
    \/ GitInitFill(p)
    \/ GitInitFail(p)
    \/ HookOpen(p)
    \/ HookWrite(p)
    \/ HookChmod(p)
    \/ CreateReturn(p)

(***************************************************************************)
(* list_repos                                                               *)
(***************************************************************************)
\* the last component of REPO_ROOT (line 8)
RootName == <<"r", "e", "p", "o", "s">>

\* p.name
Name(p) == IF p = <<>> THEN RootName ELSE p[Len(p)]

\* the glob pattern "*.git" against a file name
MatchesGit(comp) ==
    Len(comp) >= Len(DotGit) /\ SubSeq(comp, Len(comp) - Len(DotGit) + 1, Len(comp)) = DotGit

\* the position of the last "." of a file name, 0 when there is none
RECURSIVE RFindDot(_, _)
RFindDot(comp, i) ==
    IF i = 0 THEN 0 ELSE IF comp[i] = "." THEN i ELSE RFindDot(comp, i - 1)

\* p.stem: the name without its last suffix
Stem(comp) ==
    LET i == RFindDot(comp, Len(comp)) IN
    IF i > 1 /\ i < Len(comp) THEN SubSeq(comp, 1, i - 1) ELSE comp

\* REPO_ROOT.rglob("*.git") on the directories d
RGlob(d) == {q \in d : q # REPO_ROOT /\ MatchesGit(Name(q))}

\* lines 93-100: the entry list_repos makes of a match
ListEntry(q) == Descriptor(Name(Parent(q)), Stem(Name(q)), q)

\* line 91: the walk starts; what is on disk now will be found
ListScan(p) ==
    /\ req[p].pc = "idle"
    /\ req' = [req EXCEPT ![p] = [@ EXCEPT !.op = "list_repos", !.pc = "walk",
                                           !.seen = RGlob(dirs)]]
    /\ UNCHANGED <<fsvars, hookp, clock, input, output>>

\* lines 91-101: the walk ends; directories that appeared during it may or
\* may not have been found
ListReturn(p) ==
    /\ req[p].op = "list_repos" /\ req[p].pc = "walk"
    /\ \E late \in SUBSET (RGlob(dirs) \ req[p].seen) :
            req' = [req EXCEPT ![p] =
                Respond(@, 200, [NoBody EXCEPT
                    !.repos = {ListEntry(q) : q \in req[p].seen \cup late}])]
    /\ UNCHANGED <<fsvars, hookp, clock, input, output>>

list_repos(p) == ListScan(p) \/ ListReturn(p)

(***************************************************************************)
(* get_push_log                                                             *)
(***************************************************************************)
\* lines 104-111
GetValidateFrom(p, orgs, names) ==
    /\ \E org_raw \in orgs, name_raw \in names :
            Validate(p, "get_push_log", org_raw, name_raw)
    /\ UNCHANGED <<fsvars, hookp, clock, input, output>>

GetValidate(p) == GetValidateFrom(p, OrgInputs, NameInputs)

\* GetExists that makes the directory it does not find
GetExistsMkdir(p) ==
    /\ req[p].op = "get_push_log" /\ req[p].pc = "exists"
    /\ dirs' = dirs \cup Ancestors(repo_dir(p))
    /\ req' = [req EXCEPT ![p].pc = "log_exists"]
    /\ UNCHANGED <<bare, hook, pushlog, hookp, clock, input, output>>

\* lines 112-113
GetExists(p) ==
    /\ req[p].op = "get_push_log" /\ req[p].pc = "exists"
    /\ req' = [req EXCEPT ![p] =
            IF repo_dir(p) \notin dirs
            THEN HTTPException(@, 404, "Repo not found")
            ELSE [@ EXCEPT !.pc = "log_exists"]]
    /\ UNCHANGED <<fsvars, hookp, clock, input, output>>

\* GetLogExists that answers without the note
GetLogExistsNoNote(p) ==
    /\ req[p].op = "get_push_log" /\ req[p].pc = "log_exists"
    /\ req' = [req EXCEPT ![p] =
            IF repo_dir(p) \notin DOMAIN pushlog
            THEN Respond(@, 200, NoBody)
            ELSE [@ EXCEPT !.pc = "read"]]
    /\ UNCHANGED <<fsvars, hookp, clock, input, output>>

\* lines 115-117
GetLogExists(p) ==
    /\ req[p].op = "get_push_log" /\ req[p].pc = "log_exists"
    /\ req' = [req EXCEPT ![p] =
            IF repo_dir(p) \notin DOMAIN pushlog
            THEN Respond(@, 200, [NoBody EXCEPT !.note = "No pushes logged yet"])
            ELSE [@ EXCEPT !.pc = "read"]]
    /\ UNCHANGED <<fsvars, hookp, clock, input, output>>

\* line 119
GetRead(p) ==
    /\ req[p].op = "get_push_log" /\ req[p].pc = "read"
    /\ req' = [req EXCEPT ![p] =
            Respond(@, 200, [NoBody EXCEPT !.pushes = pushlog[repo_dir(p)]])]
    /\ UNCHANGED <<fsvars, hookp, clock, input, output>>

get_push_log(p) == GetValidate(p) \/ GetExists(p) \/ GetLogExists(p) \/ GetRead(p)

(***************************************************************************)
(* The post-receive hook (hook_content, lines 37-57), one process per push. *)
(***************************************************************************)
HookProcs == 1..MaxPushes

\* the ref updates git reports on the hook's standard input
RefUpdates == {[oldrev |-> "0", newrev |-> "1", refname |-> "m"],
               [oldrev |-> "1", newrev |-> "2", refname |-> "t"]}

\* the inputs of at most MaxRefs lines over the updates ups
StdIns(ups) == UNION {[1..n -> ups] : n \in 0..MaxRefs}

\* the one update and the environment of the pushes that run beside the service
ServiceUpdates == {[oldrev |-> "0", newrev |-> "1", refname |-> "m"]}

ServiceEnv == {"<unset>"}

\* PUSHER_NAME in the environment of the push
Unset == "<unset>"

PusherEnv == {Unset, "alice"}

\* stdin is the whole input of the hook and pos the number of lines read from it
NotStarted == [pc |-> "idle", dir |-> <<>>, stdin |-> <<>>, pos |-> 0,
               pusher |-> "", ts |-> 0]

\* git runs a hook that is there, executable and a script
RunsHook(d) == d \in DOMAIN hook /\ hook[d].exec /\ hook[d].content = HookContent

Line(h, words) == [by |-> h, text |-> words]

\* Echo on a file opened with > instead of >>
EchoTruncating(h, words) == pushlog' = [pushlog EXCEPT ![hookp[h].dir] = <<Line(h, words)>>]

\* echo ... >> "$LOG_FILE": each echo is one write to the file opened for append
Echo(h, words) == pushlog' = [pushlog EXCEPT ![hookp[h].dir] = Append(@, Line(h, words))]

\* a push to the bare repository d is received; git looks the hook up and
\* starts it (lines 40-42: REPO_DIR, LOG_FILE, PUSHER)
PushIn(h, ins, envs) ==
    /\ hookp[h].pc = "idle"
    /\ \E d \in bare, in \in ins, env \in envs :
            hookp' = [hookp EXCEPT ![h] =
                IF RunsHook(d)
                THEN [pc |-> "ts", dir |-> d, stdin |-> in, pos |-> 0,
                      pusher |-> IF env = Unset THEN "unknown" ELSE env, ts |-> 0]
                ELSE [NotStarted EXCEPT !.pc = "no_hook", !.dir = d]]
    /\ UNCHANGED <<fsvars, req, clock, input, output>>

\* a push whose input has at most MaxRefs lines over the updates ups
Push(h, ups, envs) == PushIn(h, StdIns(ups), envs)

\* line 44: TS="$(date -u ...)"; the clock has moved on since the last reading, or not
HookTS(h) ==
    /\ hookp[h].pc = "ts"
    /\ \E now \in {clock, clock + 1} :
            /\ clock' = now
            /\ hookp' = [hookp EXCEPT ![h].ts = now, ![h].pc = "open"]
    /\ UNCHANGED <<fsvars, req, input, output>>

\* lines 46 and 56: the redirection opens push.log for append, creating it
HookOpenLog(h) ==
    /\ hookp[h].pc = "open"
    /\ pushlog' = IF hookp[h].dir \in DOMAIN pushlog THEN pushlog
                  ELSE Put(pushlog, hookp[h].dir, <<>>)
    /\ hookp' = [hookp EXCEPT ![h].pc = "echo_header"]
    /\ UNCHANGED <<dirs, bare, hook, req, clock, input, output>>

\* lines 47-51
HookEchoHeader(h) ==
    /\ \/ /\ hookp[h].pc = "echo_header"
          /\ Echo(h, <<"=== PUSH ===">>)
          /\ hookp' = [hookp EXCEPT ![h].pc = "echo_time"]
       \/ /\ hookp[h].pc = "echo_time"
          /\ Echo(h, <<"time_utc=", hookp[h].ts>>)
          /\ hookp' = [hookp EXCEPT ![h].pc = "echo_pusher"]
       \/ /\ hookp[h].pc = "echo_pusher"
          /\ Echo(h, <<"pusher=", hookp[h].pusher>>)
          /\ hookp' = [hookp EXCEPT ![h].pc = "echo_repo"]
       \/ /\ hookp[h].pc = "echo_repo"
          /\ Echo(h, <<"repo=", hookp[h].dir>>)
          /\ hookp' = [hookp EXCEPT ![h].pc = "echo_updates"]
       \/ /\ hookp[h].pc = "echo_updates"
          /\ Echo(h, <<"updates:">>)
          /\ hookp' = [hookp EXCEPT ![h].pc = "loop"]
    /\ UNCHANGED <<dirs, bare, hook, req, clock, input, output>>

\* HookLoop with the two revisions printed the other way round
HookLoopSwapped(h) ==
    /\ hookp[h].pc = "loop" /\ hookp[h].pos < Len(hookp[h].stdin)
    /\ LET u == hookp[h].stdin[hookp[h].pos + 1] IN
            Echo(h, <<"  ", u.refname, " ", u.newrev, " -> ", u.oldrev>>)
    /\ hookp' = [hookp EXCEPT ![h].pos = @ + 1]
    /\ UNCHANGED <<dirs, bare, hook, req, clock, input, output>>

\* lines 52-54: one turn of the loop
HookLoop(h) ==
    /\ hookp[h].pc = "loop" /\ hookp[h].pos < Len(hookp[h].stdin)
    /\ LET u == hookp[h].stdin[hookp[h].pos + 1] IN
            Echo(h, <<"  ", u.refname, " ", u.oldrev, " -> ", u.newrev>>)
    /\ hookp' = [hookp EXCEPT ![h].pos = @ + 1]
    /\ UNCHANGED <<dirs, bare, hook, req, clock, input, output>>

\* line 55, after read met the end of the input
HookEchoBlank(h) ==
    /\ hookp[h].pc = "loop" /\ hookp[h].pos = Len(hookp[h].stdin)
    /\ Echo(h, <<>>)
    /\ hookp' = [hookp EXCEPT ![h].pc = "done"]
    /\ UNCHANGED <<dirs, bare, hook, req, clock, input, output>>

post_receive(h, ups, envs) ==
    \/ Push(h, ups, envs)
    \/ HookTS(h)
    \/ HookOpenLog(h)
    \/ HookEchoHeader(h)
    \/ HookLoop(h)
    \/ HookEchoBlank(h)

(***************************************************************************)
(* The service: concurrent requests on an empty REPO_ROOT, and pushes.      *)
(***************************************************************************)
Empty == [x \in {} |-> 0]

Pending == [ok |-> FALSE, value |-> "pending"]

Init ==
    /\ dirs = {REPO_ROOT}
    /\ bare = {}
    /\ hook = Empty
    /\ pushlog = Empty
    /\ req = [p \in Handlers |-> Idle]
    /\ hookp = [h \in 1..ServicePushes |-> NotStarted]
    /\ clock = 0
    /\ input = <<>>
    /\ output = Pending

Next ==
    \/ \E p \in Handlers : create_repo(p)
    \/ \E p \in Handlers : list_repos(p)
    \/ \E p \in Handlers : get_push_log(p)
    \/ \E p \in Handlers : Finish(p)
    \/ \E h \in 1..ServicePushes : post_receive(h, ServiceUpdates, ServiceEnv)

Spec == Init /\ [][Next]_vars

(***************************************************************************)
(* The request handlers alone.  They start on an empty REPO_ROOT, or on the  *)
(* state Spec reaches when create_repo("o", "b") has returned and one push   *)
(* to o/b.git has been logged.                                               *)
(***************************************************************************)
Pushed == RepoDir(<<"o">>, <<"b">>)

\* lines 46-56: the block one run of the hook writes
Block(h, d, in, pusher, ts) ==
    <<Line(h, <<"=== PUSH ===">>),
      Line(h, <<"time_utc=", ts>>),
      Line(h, <<"pusher=", pusher>>),
      Line(h, <<"repo=", d>>),
      Line(h, <<"updates:">>)>>
    \o [i \in 1..Len(in) |->
            Line(h, <<"  ", in[i].refname, " ", in[i].oldrev, " -> ", in[i].newrev>>)]
    \o <<Line(h, <<>>)>>

ServiceInit ==
    /\ req = [p \in Handlers |-> Idle]
    /\ clock = 0
    /\ input = <<>>
    /\ output = Pending
    /\ \/ /\ dirs = {REPO_ROOT}
          /\ bare = {}
          /\ hook = Empty
          /\ pushlog = Empty
          /\ hookp = [h \in 1..ServicePushes |-> NotStarted]
       \/ /\ dirs = Ancestors(Pushed)
          /\ bare = {Pushed}
          /\ hook = Put(Empty, Pushed, [content |-> HookContent, exec |-> TRUE])
          /\ pushlog = Put(Empty, Pushed, Block(1, Pushed, <<>>, "unknown", 0))
          /\ hookp = [h \in 1..ServicePushes |->
                        IF h = 1 THEN [NotStarted EXCEPT !.pc = "done", !.dir = Pushed,
                                                         !.pusher = "unknown"]
                        ELSE NotStarted]

ServiceNext ==
    \/ \E p \in Handlers : create_repo(p)
    \/ \E p \in Handlers : list_repos(p)
    \/ \E p \in Handlers : get_push_log(p)
    \/ \E p \in Handlers : Finish(p)

SpecService == ServiceInit /\ [][ServiceNext]_vars

(***************************************************************************)
(* The validator on its own: every string over Alphabet up to MaxLen.       *)
(***************************************************************************)
NameInit ==
    /\ dirs = {REPO_ROOT}
    /\ bare = {}
    /\ hook = Empty
    /\ pushlog = Empty
    /\ req = [p \in Handlers |-> Idle]
    /\ hookp = [h \in 1..ServicePushes |-> NotStarted]
    /\ clock = 0
    /\ input \in Strings
    /\ output = Pending

CallSafeName ==
    /\ output = Pending
    /\ output' = safe_name(input)
    /\ UNCHANGED <<fsvars, req, hookp, clock, input>>

NameNext == CallSafeName

SpecName == NameInit /\ [][NameNext]_vars

(***************************************************************************)
(* Concurrent pushes to one provisioned repository.  The initial state is   *)
(* the one create_repo("o", "a") leaves when it returns.                    *)
(***************************************************************************)
Provisioned == RepoDir(<<"o">>, <<"a">>)

PushInit ==
    /\ dirs = Ancestors(Provisioned)
    /\ bare = {Provisioned}
    /\ hook = Put(Empty, Provisioned, [content |-> HookContent, exec |-> TRUE])
    /\ pushlog = Empty
    /\ req = [p \in Handlers |-> Idle]
    /\ hookp = [h \in HookProcs |-> NotStarted]
    /\ clock = 0
    /\ input = <<>>
    /\ output = Pending

PushNext == \E h \in HookProcs : post_receive(h, RefUpdates, ServiceEnv)

SpecPush == PushInit /\ [][PushNext]_vars

(***************************************************************************)
(* One handler, so one request after the other, with identifiers that       *)
(* safe_name accepts and that shape the path: an org of "." and an org that  *)
(* ends in ".git".  No push.log exists here, so line 119 is never reached.   *)
(***************************************************************************)
PathOrgs == {<<"o">>, <<".">>, <<"x", ".", "g", "i", "t">>}

PathNames == {<<"a">>, <<"x">>}

\* the one worker
PathHandlers == {1}

PathsInit ==
    /\ dirs = {REPO_ROOT}
    /\ bare = {}
    /\ hook = Empty
    /\ pushlog = Empty
    /\ req = [p \in PathHandlers |-> Idle]
    /\ hookp = [h \in 1..ServicePushes |-> NotStarted]
    /\ clock = 0
    /\ input = <<>>
    /\ output = Pending

\* create_repo and get_push_log on the identifiers above
paths_create_repo(p) ==
    \/ CreateValidateFrom(p, PathOrgs, PathNames)
    \/ CreateExists(p)
    \/ CreateMkdirParent(p)
    \/ GitInitMkdir(p)
    \/ GitInitFill(p)
    \/ GitInitFail(p)
    \/ HookOpen(p)
    \/ HookWrite(p)
    \/ HookChmod(p)
    \/ CreateReturn(p)

paths_get_push_log(p) ==
    \/ GetValidateFrom(p, PathOrgs, PathNames)
    \/ GetExists(p)
    \/ GetLogExists(p)

PathsNext ==
    \/ \E p \in PathHandlers : paths_create_repo(p)
    \/ \E p \in PathHandlers : list_repos(p)
    \/ \E p \in PathHandlers : paths_get_push_log(p)
    \/ \E p \in PathHandlers : Finish(p)

SpecPaths == PathsInit /\ [][PathsNext]_vars

(***************************************************************************)
(* One push to the provisioned repository o/a.git and one reader of push    *)
(* logs.  The log does not exist yet, or holds the block of an earlier push. *)
(***************************************************************************)
ReadRefs == 2

\* the inputs of at most ReadRefs lines
ReadStdIns == UNION {[1..n -> RefUpdates] : n \in 0..ReadRefs}

\* the reading worker and the hook process of the push
ReadHandlers == {1}

ReadHooks == {1}

\* the earlier push
Earlier == 0

ReadInit ==
    /\ dirs = Ancestors(Provisioned)
    /\ bare = {Provisioned}
    /\ hook = Put(Empty, Provisioned, [content |-> HookContent, exec |-> TRUE])
    /\ pushlog \in {Empty,
                    Put(Empty, Provisioned, Block(Earlier, Provisioned, <<>>, "unknown", 0))}
    /\ req = [p \in ReadHandlers |-> Idle]
    /\ hookp = [h \in ReadHooks |-> NotStarted]
    /\ clock = 0
    /\ input = <<>>
    /\ output = Pending

read_post_receive(h) ==
    \/ PushIn(h, ReadStdIns, PusherEnv)
    \/ HookTS(h)
    \/ HookOpenLog(h)
    \/ HookEchoHeader(h)
    \/ HookLoop(h)
    \/ HookEchoBlank(h)

ReadNext ==
    \/ \E h \in ReadHooks : read_post_receive(h)
    \/ \E p \in ReadHandlers : get_push_log(p)
    \/ \E p \in ReadHandlers : Finish(p)

SpecRead == ReadInit /\ [][ReadNext]_vars

(***************************************************************************)
(* Properties.                                                              *)
(***************************************************************************)
\* handler p takes a step
Step(p) == req'[p].pc # req[p].pc

\* handler p answers in this step
Answers(p) == req[p].pc # "done" /\ req'[p].pc = "done"

\* the post-receive hook of d is installed: full content, executable
HookInstalled(d) == d \in DOMAIN hook /\ hook[d] = [content |-> HookContent, exec |-> TRUE]

\* handler p has returned a descriptor from create_repo
Created(p) == req[p].op = "create_repo" /\ req[p].pc = "done" /\ req[p].status = 200

\* C1: two create_repo requests for the identical (org, name) never both
\* return a descriptor (one of them gets the 409 conflict).
C1_NeverTwoSuccesses ==
    \A p, q \in Handlers :
        (p # q /\ Created(p) /\ Created(q)) => repo_dir(p) # repo_dir(q)

\* C2: in every reachable state a post-receive hook file that exists has its
\* complete content and is executable (it is fully absent or fully present).
C2_HookAbsentOrComplete ==
    \A d \in DOMAIN hook : hook[d] = [content |-> HookContent, exec |-> TRUE]

\* C3: whenever list_repos or create_repo returns, every descriptor in the
\* response refers to a repository whose hook is installed and executable.
C3_DescriptorsHaveHook ==
    [][\A p \in Handlers :
        (Answers(p) /\ req'[p].status = 200) =>
            \A e \in req'[p].body.repos :
                e.path \in DOMAIN hook' /\ hook'[e.path].content = HookContent
                                         /\ hook'[e.path].exec]_vars

\* C4: a create_repo for an identifier whose repository has been created (bare,
\* hook installed) goes from the existence check straight to the 409 answer,
\* without a bare init or a hook write, and the call (its validation and its
\* existence check) leaves the disk as it was.
C4_SecondCreateConflicts ==
    [][\A p \in Handlers :
        /\ (Step(p) /\ req[p].pc = "idle" /\ req'[p].op = "create_repo")
                => fsvars' = fsvars
        /\ (/\ Step(p)
            /\ req[p].op = "create_repo" /\ req[p].pc = "exists"
            /\ repo_dir(p) \in bare /\ HookInstalled(repo_dir(p)))
           => /\ req'[p].pc = "done" /\ req'[p].status = 409
              /\ fsvars' = fsvars]_vars

\* C4's case: another create_repo has returned the descriptor of a created
\* repository and this one, for the same identifier, has been answered 409.
C4_Witness ==
    \E p, q \in Handlers :
        /\ p # q /\ Created(q)
        /\ req[p].op = "create_repo" /\ req[p].pc = "done" /\ req[p].status = 409
        /\ repo_dir(p) = repo_dir(q)
        /\ repo_dir(p) \in bare /\ HookInstalled(repo_dir(p))

\* C5: at the moment create_repo returns a descriptor, the repository is a
\* bare repository and its hook has the full content and is executable.
C5_ReturnedRepoComplete ==
    [][\A p \in Handlers :
        (Answers(p) /\ req'[p].op = "create_repo" /\ req'[p].status = 200) =>
            /\ repo_dir(p) \in bare'
            /\ repo_dir(p) \in DOMAIN hook'
            /\ hook'[repo_dir(p)] = [content |-> HookContent, exec |-> TRUE]]_vars

\* C6: create_repo runs validate, existence check, parent mkdir, bare init,
\* hook install in this order; a failed existence check (409) or bare init
\* (500) ends the request: it touches no hook file and returns no descriptor,
\* and the hook install starts only after the request's own bare init succeeded.
C6_OrderAndShortCircuit ==
    [][\A p \in Handlers :
        (Step(p) /\ req'[p].op = "create_repo") =>
            /\ req'[p].pc = "exists" => req[p].pc = "idle"
            /\ req'[p].pc = "mkdir" => (req[p].pc = "exists" /\ repo_dir(p) \notin dirs)
            /\ req'[p].pc = "git_init" => req[p].pc = "mkdir"
            /\ req'[p].pc = "git_init_fill" => req[p].pc = "git_init"
            /\ req'[p].pc = "hook_open" =>
                    (req[p].pc = "git_init_fill" /\ repo_dir(p) \in bare')
            /\ req'[p].pc = "hook_write" => req[p].pc = "hook_open"
            /\ req'[p].pc = "chmod" => req[p].pc = "hook_write"
            /\ req'[p].pc = "return" => req[p].pc = "chmod"
            /\ hook' # hook => req[p].pc \in {"hook_open", "hook_write", "chmod"}
            /\ req'[p].pc = "done" =>
                    \/ req'[p].status = 400 /\ req[p].pc = "idle" /\ fsvars' = fsvars
                    \/ req'[p].status = 409 /\ req[p].pc = "exists" /\ fsvars' = fsvars
                    \/ /\ req'[p].status = 500
                       /\ req[p].pc \in {"git_init", "git_init_fill"}
                       /\ hook' = hook
                    \/ req'[p].status = 200 /\ req[p].pc = "return"]_vars

\* C6's case: a bare init failed after the directory appeared; the request was
\* answered 500 and no hook file has been written.
C6_Witness ==
    \E p \in Handlers :
        /\ req[p].op = "create_repo" /\ req[p].pc = "done" /\ req[p].status = 500
        /\ repo_dir(p) \in dirs /\ repo_dir(p) \notin DOMAIN hook

\* the operations that take identifiers from the request
TakesIdentifiers(r) == r.op \in {"create_repo", "get_push_log"}

\* C7: in create_repo and get_push_log the path is built from identifiers
\* that safe_name accepted (and returned as they are), and a request whose
\* validation fails is answered 400 with the filesystem unchanged.
C7_ValidatedBeforePath ==
    [][\A p \in Handlers :
        (Step(p) /\ TakesIdentifiers(req'[p])) =>
            /\ req'[p].pc # "done" =>
                    /\ safe_name(req'[p].org) = Ok(req'[p].org)
                    /\ safe_name(req'[p].name) = Ok(req'[p].name)
            /\ (req'[p].pc = "done" /\ req'[p].status = 400) =>
                    (req[p].pc = "idle" /\ fsvars' = fsvars)
            /\ req[p].pc = "idle" =>
                    \/ req'[p].pc = "exists"
                    \/ req'[p].pc = "done" /\ req'[p].status = 400]_vars

\* C7's case: with a repository on disk, a get_push_log and a create_repo
\* have both been answered 400.
C7_Witness ==
    /\ bare # {}
    /\ \E p, q \in Handlers :
        /\ req[p].op = "get_push_log" /\ req[p].pc = "done" /\ req[p].status = 400
        /\ req[q].op = "create_repo" /\ req[q].pc = "done" /\ req[q].status = 400

\* C8: safe_name rejects every input that contains "/", "\" or "..", whatever
\* else it contains, leading and trailing whitespace included.
C8_RejectsSeparators ==
    (/\ output # Pending
     /\ \/ Contains(input, <<"/">>)
        \/ Contains(input, <<"\\">>)
        \/ Contains(input, <<".", ".">>))
    => ~output.ok

\* C8's case: ".." behind leading whitespace has been rejected.
C8_Witness ==
    /\ input = <<" ", ".", ".">>
    /\ output # Pending /\ ~output.ok

\* every character of s is allow-listed
AllowListed(s) == \A i \in 1..Len(s) : s[i] \in Lower \cup Upper \cup Digits \cup {"-", "_", "."}

\* C9 as stated: safe_name accepts every non-empty allow-listed string and
\* returns it unchanged.
C9_AcceptsAllowListed ==
    (output # Pending /\ input # <<>> /\ AllowListed(input)) => output = Ok(input)

\* C9 as amended: safe_name accepts every non-empty allow-listed string that
\* does not contain ".." and returns it unchanged.
C9_AcceptsAllowListedNoDotDot ==
    (/\ output # Pending /\ input # <<>> /\ AllowListed(input)
     /\ ~Contains(input, <<".", ".">>))
    => output = Ok(input)

\* C9's case: a mixed-case name with a dot has been accepted as it is.
C9_Witness ==
    /\ input = <<"Z", ".", "a">>
    /\ output = Ok(input)

\* the lines of each push form one contiguous run of the log
Contiguous(log) ==
    \A i, j, k \in 1..Len(log) :
        (i < j /\ j < k /\ log[i].by = log[k].by) => log[j].by = log[i].by

\* C10: in every reachable content of a push.log the lines of each push are
\* contiguous: no line of another push stands inside a block.
C10_BlocksNeverInterleave ==
    \A d \in DOMAIN pushlog : Contiguous(pushlog[d])

\* the identifiers the path specification creates repositories for
PathIds == PathOrgs \X PathNames

\* the identifiers whose repository is on disk, bare, with its hook installed
CreatedIds == {id \in PathIds : RepoDir(id[1], id[2]) \in bare
                                /\ HookInstalled(RepoDir(id[1], id[2]))}

\* every directory on disk is REPO_ROOT, a created repository or the
\* organization directory of one: only successful creations so far
OnlyCreations ==
    \A d \in dirs :
        \/ d = REPO_ROOT
        \/ \E id \in CreatedIds : d \in {RepoDir(id[1], id[2]), Parent(RepoDir(id[1], id[2]))}

\* C11: after successful create_repo calls only, list_repos returns exactly
\* one entry per created repository, with the (org, name) it was created
\* with, and no entry for any other directory (an organization directory).
C11_ListIsCreated ==
    [][\A p \in DOMAIN req :
        (Answers(p) /\ req'[p].op = "list_repos" /\ OnlyCreations) =>
            req'[p].body.repos =
                {Descriptor(id[1], id[2], RepoDir(id[1], id[2])) : id \in CreatedIds}]_vars

\* q lies inside d or is d
Inside(q, d) == Len(d) <= Len(q) /\ SubSeq(q, 1, Len(d)) = d

\* C18: every storage path built from accepted identifiers lies exactly two
\* levels below REPO_ROOT, distinct identifiers have distinct paths, and no
\* repository lies inside another repository.
C18_TwoLevelsNoNesting ==
    /\ \A p \in DOMAIN req :
            (TakesIdentifiers(req[p]) /\ req[p].pc \notin {"idle", "done"})
                => Len(repo_dir(p)) = 2
    /\ \A i, j \in PathIds : i # j => RepoDir(i[1], i[2]) # RepoDir(j[1], j[2])
    /\ \A d, q \in bare : d # q => ~Inside(q, d)

\* a push to d has been received
PushReceived(d) == \E h \in DOMAIN hookp : hookp[h].pc # "idle" /\ hookp[h].dir = d

\* no hook is running in d
NoHookRunning(d) ==
    \A h \in DOMAIN hookp : hookp[h].dir = d => hookp[h].pc \in {"idle", "no_hook", "done"}

C12_Witness404 ==
    \E p \in DOMAIN req :
        /\ req[p].op = "get_push_log" /\ req[p].pc = "done" /\ req[p].status = 404
        /\ repo_dir(p) \notin dirs

C12_WitnessNote ==
    \E p \in DOMAIN req :
        /\ req[p].op = "get_push_log" /\ req[p].pc = "done" /\ req[p].status = 200
        /\ req[p].body.note = "No pushes logged yet"
        /\ ~PushReceived(repo_dir(p))

LinesBy(log, h) == SelectSeq(log, LAMBDA l : l.by = h)

\* b is the block of a push at time ts by pusher to d with the updates in
IsBlockOf(b, d, in, pusher, ts) ==
    /\ Len(b) = Len(in) + 6
    /\ b[1].text = <<"=== PUSH ===">>
    /\ b[2].text = <<"time_utc=", ts>>
    /\ b[3].text = <<"pusher=", pusher>>
    /\ b[4].text = <<"repo=", d>>
    /\ b[5].text = <<"updates:">>
    /\ \A i \in 1..Len(in) :
            b[5 + i].text = <<"  ", in[i].refname, " ", in[i].oldrev, " -> ", in[i].newrev>>
    /\ b[Len(in) + 6].text = <<>>

\* C13: a hook invocation that has read its N input lines has appended one
\* block to push.log: header, time, pusher, repo, "updates:", the N lines
\* "  <ref_name> <old_revision> -> <new_revision>" in input order, and a
\* blank line, after what the log held before.
C13_OneBlockPerInvocation ==
    \A h \in DOMAIN hookp :
        hookp[h].pc = "done" =>
            LET log == pushlog[hookp[h].dir]
                n == Len(hookp[h].stdin) + 6 IN
            /\ Len(LinesBy(log, h)) = n
            /\ Len(log) >= n
            /\ SubSeq(log, Len(log) - n + 1, Len(log)) = LinesBy(log, h)
            /\ IsBlockOf(LinesBy(log, h), hookp[h].dir, hookp[h].stdin,
                         hookp[h].pusher, hookp[h].ts)

\* C13's case: a push by alice with two different updates has been logged
\* behind the block of an earlier push.
C13_Witness ==
    \E h \in DOMAIN hookp :
        /\ hookp[h].pc = "done"
        /\ Len(hookp[h].stdin) = 2 /\ hookp[h].stdin[1] # hookp[h].stdin[2]
        /\ hookp[h].pusher = "alice"
        /\ Len(pushlog[hookp[h].dir]) = 14

\* log is a sequence of whole blocks: it is empty or ends with a blank line
CompleteBlocks(log) == log = <<>> \/ log[Len(log)].text = <<>>

\* C19: the pushes value of every get_push_log answer is a sequence of whole
\* blocks, and it is empty only together with the note.
C19_NeverTorn ==
    [][\A p \in DOMAIN req :
        (Answers(p) /\ req'[p].op = "get_push_log" /\ req'[p].status = 200) =>
            /\ CompleteBlocks(req'[p].body.pushes)
            /\ req'[p].body.pushes = <<>> => req'[p].body.note = "No pushes logged yet"]_vars

\* a is an initial segment of b
IsPrefix(a, b) == Len(a) <= Len(b) /\ SubSeq(b, 1, Len(a)) = a

\* C14: push.log is append-only. No step of any operation (provisioning, a
\* racing or repeated provisioning attempt, listing, reading, a push) removes
\* a push.log or changes or drops a line that is already in it.
C14_AppendOnly ==
    [][\A d \in DOMAIN pushlog :
        d \in DOMAIN pushlog' /\ IsPrefix(pushlog[d], pushlog'[d])]_vars

\* C14's case: a push to a repository has been logged whole and, with the log
\* on disk, a provisioning attempt on the same repository was answered 409
\* and a get_push_log read it.
C14_Witness ==
    \E d \in DOMAIN pushlog :
        /\ Len(pushlog[d]) >= 6
        /\ CompleteBlocks(pushlog[d])
        /\ \E p \in DOMAIN req :
            /\ req[p].op = "create_repo" /\ req[p].pc = "done"
            /\ req[p].status = 409 /\ repo_dir(p) = d
        /\ \E p \in DOMAIN req :
            /\ req[p].op = "get_push_log" /\ req[p].pc = "done"
            /\ req[p].status = 200 /\ req[p].body.pushes = pushlog[d]

\* the number of PUSH headers in log
Headers(log) == Len(SelectSeq(log, LAMBDA l : l.text = <<"=== PUSH ===">>))

\* the pushes to d that git has completed
CompletedPushes(d) ==
    {h \in DOMAIN hookp : hookp[h].dir = d /\ hookp[h].pc \in {"done", "no_hook"}}

\* C15: once no hook is running, the push.log of every repository holds one
\* PUSH block for each push completed against it, the pushes that arrived
\* while the repository was being provisioned included.
C15_OneRecordPerPush ==
    (\A h \in DOMAIN hookp : hookp[h].pc \in {"idle", "done", "no_hook"}) =>
        \A d \in bare :
            Headers(IF d \in DOMAIN pushlog THEN pushlog[d] ELSE <<>>)
                = Cardinality(CompletedPushes(d))

\* the timestamps of the time_utc lines of log, in log order
TimeLines(log) ==
    SelectSeq(log, LAMBDA l : Len(l.text) = 2 /\ l.text[1] = "time_utc=")

\* C16: the time_utc values of the successive blocks of a push.log never
\* decrease, blocks being written in the order their hooks took their time.
C16_TimeNeverDecreases ==
    \A d \in DOMAIN pushlog :
        LET ts == TimeLines(pushlog[d]) IN
        \A i, j \in 1..Len(ts) : i < j => ts[i].text[2] <= ts[j].text[2]

\* C17: no step of list_repos or get_push_log changes the file system: no
\* directory, repository, hook or push.log is created, changed or removed,
\* whatever the arguments and whatever the answer.
C17_ReadsDoNotMutate ==
    [][\A p \in DOMAIN req :
        (Step(p) /\ (\/ req[p].op \in {"list_repos", "get_push_log"}
                     \/ req'[p].op \in {"list_repos", "get_push_log"})) =>
            fsvars' = fsvars]_vars

\* C17's case: with a repository on disk, a get_push_log for a repository
\* that was never created was answered 404 and a list_repos was answered.
C17_Witness ==
    /\ bare # {}
    /\ \E p \in DOMAIN req :
        /\ req[p].op = "get_push_log" /\ req[p].pc = "done"
        /\ req[p].status = 404 /\ repo_dir(p) \notin dirs
    /\ \E p \in DOMAIN req :
        /\ req[p].op = "list_repos" /\ req[p].pc = "done"
        /\ req[p].body.repos # {}

====
